---------------------------- MODULE Spec2Model ----------------------------
(***************************************************************************)
(* A model of chaindict: a chain of dictionaries stored as immutable delta *)
(* and snapshot files.  Files are byte sequences; footers are encoded and  *)
(* decoded byte by byte through the framed reader of storage.rs, whose     *)
(* cursor and logical size are part of the model.                          *)
(*                                                                         *)
(* Representation.  A u128 is a tuple of four u32 limbs, most significant  *)
(* first; Option<T> is the empty tuple (None) or a one-element tuple       *)
(* (Some).  An error is a tuple whose first element is the variant name.   *)
(***************************************************************************)
EXTENDS Integers, Sequences, FiniteSets, TLC

(* ------------------------------ bounds -------------------------------- *)

\* The number of links in the store.
MaxLinks == 3

\* The number of chains (links without a previous link) in the store.
MaxRoots == 2

\* The entries a caller may write are 1..MaxEntry.
MaxEntry == 3

(* ------------------------- program constants -------------------------- *)

\* storage::VERSION
VERSION == 0

\* delta::Footer::SIZE
DFooterSize == 30

\* snapshot::Footer::SIZE (previous 16 + index 4 + count 4 + version 2)
SFooterSize == 26

\* Entry::SIZE of the entry type used here: a big-endian integer of 4 bytes.
EntrySize == 4

None == <<>>
Some(x) == <<x>>
IsSome(o) == Len(o) = 1
Unwrap(o) == o[1]

NoErr == <<>>

(* -------------------------- byte encodings ---------------------------- *)

RECURSIVE ToBeBytes(_, _)
\* value.to_be_bytes() for an n-byte unsigned integer
ToBeBytes(value, n) ==
    IF n = 0 THEN <<>>
    ELSE Append(ToBeBytes(value \div 256, n - 1), value % 256)

RECURSIVE FromBeBytes(_)
\* uN::from_be_bytes(bytes)
FromBeBytes(bytes) ==
    IF Len(bytes) = 0 THEN 0
    ELSE FromBeBytes(SubSeq(bytes, 1, Len(bytes) - 1)) * 256 + bytes[Len(bytes)]

\* u128::to_be_bytes on the four-limb representation
U128ToBeBytes(v) ==
    ToBeBytes(v[1], 4) \o ToBeBytes(v[2], 4) \o ToBeBytes(v[3], 4) \o ToBeBytes(v[4], 4)

\* u128::from_be_bytes into the four-limb representation
U128FromBeBytes(b) ==
    << FromBeBytes(SubSeq(b, 1, 4)), FromBeBytes(SubSeq(b, 5, 8)),
       FromBeBytes(SubSeq(b, 9, 12)), FromBeBytes(SubSeq(b, 13, 16)) >>

U128Zero == <<0, 0, 0, 0>>

\* LinkId::as_u128 and LinkId::from_u128: a LinkId is its u128
AsU128(id) == id
FromU128(num) == num

(* --------------------------- storage adapter -------------------------- *)

FileKey(id, kind) == <<id, kind>>

\* The object store as one operation sees it: the objects, the objects whose
\* stat fails with an error other than not-found, and the objects whose
\* ranged reads fail.
Operator(fs, stat_err, read_err) ==
    [files |-> fs, stat_err |-> stat_err, read_err |-> read_err]

NoReader == [offset |-> 0, file_size |-> 0, data |-> <<>>, read_err |-> FALSE]

\* Storage::open: stat the object, then a reader at offset 0 over the whole
\* file.  A missing object is the operator's stat error, converted by `?`
\* into Error::Storage like any other.
StorageOpen(st, id, kind) ==
    IF FileKey(id, kind) \in DOMAIN st.files /\ FileKey(id, kind) \notin st.stat_err
    THEN [ok |-> TRUE, err |-> NoErr,
          reader |-> [offset |-> 0,
                      file_size |-> Len(st.files[FileKey(id, kind)]),
                      data |-> st.files[FileKey(id, kind)],
                      read_err |-> FileKey(id, kind) \in st.read_err]]
    ELSE [ok |-> FALSE, err |-> <<"Storage">>, reader |-> NoReader]

\* Storage::open_maybe: Some(reader), None when the object is absent, or the
\* operator's error.
StorageOpenMaybe(st, id, kind) ==
    IF FileKey(id, kind) \notin DOMAIN st.files /\ FileKey(id, kind) \notin st.stat_err
    THEN [ok |-> TRUE, err |-> NoErr, val |-> None]
    ELSE LET Wrap(o) == [ok |-> o.ok, err |-> o.err,
                         val |-> IF o.ok THEN Some(o.reader) ELSE None]
         IN Wrap(StorageOpen(st, id, kind))

\* Reader::range: the byte range of `len` bytes at the cursor
Range(r, len) ==
    IF r.offset + len > r.file_size
    THEN [ok |-> FALSE, err |-> <<"FileSize", r.offset + len, r.file_size>>,
          start |-> 0, end |-> 0]
    ELSE [ok |-> TRUE, err |-> NoErr, start |-> r.offset, end |-> r.offset + len]

\* Reader::read_bytes::<N>: the bytes of range(N); the reader it leaves is
\* the reader it was given (no field of self is assigned).
ReadBytes(r, N) ==
    LET Read(range) ==
            IF ~range.ok
            THEN [ok |-> FALSE, err |-> range.err, bytes |-> <<>>, reader |-> r]
            ELSE IF r.read_err
            THEN [ok |-> FALSE, err |-> <<"Storage">>, bytes |-> <<>>, reader |-> r]
            ELSE [ok |-> TRUE, err |-> NoErr,
                  bytes |-> SubSeq(r.data, range.start + 1, range.end),
                  reader |-> r]
    IN Read(Range(r, N))

\* Reader::read_u16 / read_u32 / read_u128
ReadU16(r) ==
    LET Decode(b) == [ok |-> b.ok, err |-> b.err, reader |-> b.reader,
                      val |-> IF b.ok THEN FromBeBytes(b.bytes) ELSE 0]
    IN Decode(ReadBytes(r, 2))

ReadU32(r) ==
    LET Decode(b) == [ok |-> b.ok, err |-> b.err, reader |-> b.reader,
                      val |-> IF b.ok THEN FromBeBytes(b.bytes) ELSE 0]
    IN Decode(ReadBytes(r, 4))

ReadU128(r) ==
    LET Decode(b) == [ok |-> b.ok, err |-> b.err, reader |-> b.reader,
                      val |-> IF b.ok THEN U128FromBeBytes(b.bytes) ELSE U128Zero]
    IN Decode(ReadBytes(r, 16))

\* Reader::goto: a positive offset is absolute, any other is relative to the
\* logical end (the callers never pass one below -file_size).
Goto(r, offset) ==
    IF offset > 0
    THEN [r EXCEPT !.offset = offset]
    ELSE [r EXCEPT !.offset = r.file_size + offset]

\* Reader::set_file_size
SetFileSize(r, file_size) == [r EXCEPT !.file_size = file_size]

\* Writer::copy_from: the reader's bytes from its cursor to its logical end
CopyFrom(r) == SubSeq(r.data, r.offset + 1, r.file_size)

\* Writer::write_u16 / write_u32 / write_u128: the bytes appended
WriteU16(value) == ToBeBytes(value, 2)
WriteU32(value) == ToBeBytes(value, 4)
WriteU128(value) == U128ToBeBytes(value)

(* ------------------------------ footers ------------------------------- *)

NoDFooter == [previous |-> None, index |-> 0, total |-> 0, count |-> 0]
NoSFooter == [previous |-> None, index |-> 0, count |-> 0]

\* delta::Footer::read without the version check
DFooterReadAnyVersion(reader) ==
    IF reader.file_size < DFooterSize
    THEN [ok |-> FALSE, err |-> <<"FileSize", DFooterSize, reader.file_size>>,
          footer |-> NoDFooter, reader |-> reader]
    ELSE
    LET Fail(read) ==
            [ok |-> FALSE, err |-> read.err, footer |-> NoDFooter, reader |-> read.reader]
        \* each step is one `let field = reader.read_..().await?` of the code
        GotCount(previous, index, total, count) ==
            IF ~count.ok THEN Fail(count)
            ELSE [ok |-> TRUE, err |-> NoErr,
                  footer |-> [previous |-> IF previous.val = U128Zero THEN None
                                           ELSE Some(FromU128(previous.val)),
                              index |-> index.val, total |-> total.val,
                              count |-> count.val],
                  reader |-> SetFileSize(count.reader,
                                         count.reader.file_size - DFooterSize)]
        GotTotal(previous, index, total) ==
            IF ~total.ok THEN Fail(total)
            ELSE GotCount(previous, index, total, ReadU32(total.reader))
        GotIndex(previous, index) ==
            IF ~index.ok THEN Fail(index)
            ELSE GotTotal(previous, index, ReadU32(index.reader))
        GotPrevious(previous) ==
            IF ~previous.ok THEN Fail(previous)
            ELSE GotIndex(previous, ReadU32(previous.reader))
        GotVersion(version) ==
            IF ~version.ok THEN Fail(version)
            ELSE GotPrevious(ReadU128(Goto(version.reader, -DFooterSize)))
    IN GotVersion(ReadU16(Goto(reader, -2)))

\* delta::Footer::read that reads the version bytes of any file that has
\* them and checks the size of the footer afterwards
DFooterReadVersionFirst(reader) ==
    IF reader.file_size < 2
    THEN [ok |-> FALSE, err |-> <<"FileSize", DFooterSize, reader.file_size>>,
          footer |-> NoDFooter, reader |-> reader]
    ELSE
    LET Fail(read) ==
            [ok |-> FALSE, err |-> read.err, footer |-> NoDFooter, reader |-> read.reader]
        \* each step is one `let field = reader.read_..().await?` of the code
        GotCount(previous, index, total, count) ==
            IF ~count.ok THEN Fail(count)
            ELSE [ok |-> TRUE, err |-> NoErr,
                  footer |-> [previous |-> IF previous.val = U128Zero THEN None
                                           ELSE Some(FromU128(previous.val)),
                              index |-> index.val, total |-> total.val,
                              count |-> count.val],
                  reader |-> SetFileSize(count.reader,
                                         count.reader.file_size - DFooterSize)]
        GotTotal(previous, index, total) ==
            IF ~total.ok THEN Fail(total)
            ELSE GotCount(previous, index, total, ReadU32(total.reader))
        GotIndex(previous, index) ==
            IF ~index.ok THEN Fail(index)
            ELSE GotTotal(previous, index, ReadU32(index.reader))
        GotPrevious(previous) ==
            IF ~previous.ok THEN Fail(previous)
            ELSE GotIndex(previous, ReadU32(previous.reader))
        GotVersion(version) ==
            IF ~version.ok THEN Fail(version)
            ELSE IF version.val # VERSION
            THEN [ok |-> FALSE, err |-> <<"Version", VERSION, version.val>>,
                  footer |-> NoDFooter, reader |-> version.reader]
            ELSE IF reader.file_size < DFooterSize
            THEN [ok |-> FALSE, err |-> <<"FileSize", DFooterSize, reader.file_size>>,
                  footer |-> NoDFooter, reader |-> version.reader]
            ELSE GotPrevious(ReadU128(Goto(version.reader, -DFooterSize)))
    IN GotVersion(ReadU16(Goto(reader, -2)))

\* delta::Footer::read
DFooterRead(reader) ==
    IF reader.file_size < DFooterSize
    THEN [ok |-> FALSE, err |-> <<"FileSize", DFooterSize, reader.file_size>>,
          footer |-> NoDFooter, reader |-> reader]
    ELSE
    LET Fail(read) ==
            [ok |-> FALSE, err |-> read.err, footer |-> NoDFooter, reader |-> read.reader]
        \* each step is one `let field = reader.read_..().await?` of the code
        GotCount(previous, index, total, count) ==
            IF ~count.ok THEN Fail(count)
            ELSE [ok |-> TRUE, err |-> NoErr,
                  footer |-> [previous |-> IF previous.val = U128Zero THEN None
                                           ELSE Some(FromU128(previous.val)),
                              index |-> index.val, total |-> total.val,
                              count |-> count.val],
                  reader |-> SetFileSize(count.reader,
                                         count.reader.file_size - DFooterSize)]
        GotTotal(previous, index, total) ==
            IF ~total.ok THEN Fail(total)
            ELSE GotCount(previous, index, total, ReadU32(total.reader))
        GotIndex(previous, index) ==
            IF ~index.ok THEN Fail(index)
            ELSE GotTotal(previous, index, ReadU32(index.reader))
        GotPrevious(previous) ==
            IF ~previous.ok THEN Fail(previous)
            ELSE GotIndex(previous, ReadU32(previous.reader))
        GotVersion(version) ==
            IF ~version.ok THEN Fail(version)
            ELSE IF version.val # VERSION
            THEN [ok |-> FALSE, err |-> <<"Version", VERSION, version.val>>,
                  footer |-> NoDFooter, reader |-> version.reader]
            ELSE GotPrevious(ReadU128(Goto(version.reader, -DFooterSize)))
    IN GotVersion(ReadU16(Goto(reader, -2)))

\* delta::Footer::write: the bytes appended to the writer
DFooterWrite(footer) ==
    LET previous == IF IsSome(footer.previous) THEN AsU128(Unwrap(footer.previous))
                    ELSE U128Zero
    IN WriteU128(previous) \o WriteU32(footer.index) \o WriteU32(footer.total)
       \o WriteU32(footer.count) \o WriteU16(VERSION)

\* snapshot::Footer::read: the read protocol of the delta footer over the
\* fields previous, index, count, VERSION
SFooterRead(reader) ==
    IF reader.file_size < SFooterSize
    THEN [ok |-> FALSE, err |-> <<"FileSize", SFooterSize, reader.file_size>>,
          footer |-> NoSFooter, reader |-> reader]
    ELSE
    LET Fail(read) ==
            [ok |-> FALSE, err |-> read.err, footer |-> NoSFooter, reader |-> read.reader]
        GotCount(previous, index, count) ==
            IF ~count.ok THEN Fail(count)
            ELSE [ok |-> TRUE, err |-> NoErr,
                  footer |-> [previous |-> IF previous.val = U128Zero THEN None
                                           ELSE Some(FromU128(previous.val)),
                              index |-> index.val, count |-> count.val],
                  reader |-> SetFileSize(count.reader,
                                         count.reader.file_size - SFooterSize)]
        GotIndex(previous, index) ==
            IF ~index.ok THEN Fail(index)
            ELSE GotCount(previous, index, ReadU32(index.reader))
        GotPrevious(previous) ==
            IF ~previous.ok THEN Fail(previous)
            ELSE GotIndex(previous, ReadU32(previous.reader))
        GotVersion(version) ==
            IF ~version.ok THEN Fail(version)
            ELSE IF version.val # VERSION
            THEN [ok |-> FALSE, err |-> <<"Version", VERSION, version.val>>,
                  footer |-> NoSFooter, reader |-> version.reader]
            ELSE GotPrevious(ReadU128(Goto(version.reader, -SFooterSize)))
    IN GotVersion(ReadU16(Goto(reader, -2)))

\* snapshot::Footer::write: the bytes appended to the writer
SFooterWrite(footer) ==
    LET previous == IF IsSome(footer.previous) THEN AsU128(Unwrap(footer.previous))
                    ELSE U128Zero
    IN WriteU128(previous) \o WriteU32(footer.index) \o WriteU32(footer.count)
       \o WriteU16(VERSION)

(* ------------------------------ entries ------------------------------- *)

\* Entry::read of the entry type used here: SIZE bytes, big-endian
EntryRead(reader) ==
    LET Decode(b) == [ok |-> b.ok, err |-> b.err, reader |-> b.reader,
                      val |-> IF b.ok THEN FromBeBytes(b.bytes) ELSE 0]
    IN Decode(ReadBytes(reader, EntrySize))

\* Entry::write of the entry type used here: the SIZE bytes appended
EntryWrite(entry) == ToBeBytes(entry, EntrySize)

RECURSIVE ReadEntries(_, _)
\* for _ in 0..count { T::read(&mut reader).await? }: the entries in order,
\* or the first error
ReadEntries(reader, count) ==
    IF count = 0
    THEN [ok |-> TRUE, err |-> NoErr, entries |-> <<>>, reader |-> reader]
    ELSE LET Push(entry, rest) ==
                 [ok |-> rest.ok, err |-> rest.err,
                  entries |-> IF rest.ok THEN <<entry.val>> \o rest.entries ELSE <<>>,
                  reader |-> rest.reader]
             Got(entry) ==
                 IF ~entry.ok
                 THEN [ok |-> FALSE, err |-> entry.err, entries |-> <<>>,
                       reader |-> entry.reader]
                 ELSE Push(entry, ReadEntries(entry.reader, count - 1))
         IN Got(EntryRead(reader))

\* Entries::default: no entry, an empty table of indices
EntriesDefault == [entries |-> <<>>, indexes |-> {}]

\* Entries::len / is_empty
EntriesLen(self) == Len(self.entries)
IsEmpty(self) == Len(self.entries) = 0

\* Entries::reserve: capacity only
Reserve(self, additional) == self

\* Entries::insert_unique: index = len, recorded in the table, entry pushed
InsertUnique(self, entry) ==
    LET index == Len(self.entries) IN
    [entries |-> Append(self.entries, entry), indexes |-> self.indexes \cup {index}]

\* Entries::get_at
GetAt(self, index) ==
    IF index < Len(self.entries) THEN Some(self.entries[index + 1]) ELSE None

\* Entries::get_index_of: an index of the table whose entry is equal (the
\* first one, when the unique-insert contract was broken)
GetIndexOf(self, entry) ==
    LET found == {i \in self.indexes : self.entries[i + 1] = entry} IN
    IF found = {} THEN None
    ELSE Some(CHOOSE i \in found : \A j \in found : i <= j)

RECURSIVE InsertAll(_, _)
\* for entry in delta { entries.insert_unique(entry) }
InsertAll(self, delta) ==
    IF Len(delta) = 0 THEN self
    ELSE InsertAll(InsertUnique(self, delta[1]), Tail(delta))

RECURSIVE ReplayRev(_, _)
\* for delta in deltas.into_iter().rev() { ... insert_unique ... }
ReplayRev(self, deltas) ==
    IF Len(deltas) = 0 THEN self
    ELSE ReplayRev(InsertAll(self, deltas[Len(deltas)]), SubSeq(deltas, 1, Len(deltas) - 1))

(* ------------------------------- reader ------------------------------- *)

NoLink == U128Zero
NoSelf == [latest |-> NoLink, entries |-> EntriesDefault]

OpenErr(err, opened) ==
    [ok |-> FALSE, err |-> err, self |-> NoSelf, opened |-> opened]

RECURSIVE OpenLoop(_, _, _, _, _)
\* The loop of Reader::open and the replay after it, from link `next` with
\* the deltas collected so far (most recent first) and the running total.
\* `opened` collects the files a reader was obtained for.
OpenLoop(st, next, deltas, total, opened) ==
    LET sopened == opened \cup {FileKey(next, "snapshot")}
        dopened == opened \cup {FileKey(next, "delta")}
        \* the snapshot branch: the entries of the snapshot, then the deltas
        Replay(entries) ==
            [ok |-> TRUE, err |-> NoErr, opened |-> sopened,
             self |-> [latest |-> NoLink, entries |-> ReplayRev(entries, deltas)]]
        Reserved(footer, entries) ==
            Replay(IF IsEmpty(entries)
                   THEN Reserve(entries, total + footer.count) ELSE entries)
        GotBody(footer, body) ==
            IF ~body.ok THEN OpenErr(body.err, sopened)
            ELSE Reserved(footer,
                          InsertAll(Reserve(EntriesDefault, total + footer.count),
                                    body.entries))
        GotSFooter(footer) ==
            IF ~footer.ok THEN OpenErr(footer.err, sopened)
            ELSE GotBody(footer.footer, ReadEntries(footer.reader, footer.footer.count))
        \* the delta branch
        GotDelta(footer, delta) ==
            IF ~delta.ok THEN OpenErr(delta.err, dopened)
            ELSE IF ~IsSome(footer.previous)
            THEN [ok |-> TRUE, err |-> NoErr, opened |-> dopened,
                  self |-> [latest |-> NoLink,
                            entries |-> ReplayRev(Reserve(EntriesDefault,
                                                          total + footer.count),
                                                  Append(deltas, delta.entries))]]
            ELSE OpenLoop(st, Unwrap(footer.previous), Append(deltas, delta.entries),
                          total + footer.count, dopened)
        GotDFooter(footer) ==
            IF ~footer.ok THEN OpenErr(footer.err, dopened)
            ELSE GotDelta(footer.footer, ReadEntries(footer.reader, footer.footer.count))
        GotFile(file) ==
            IF ~file.ok THEN OpenErr(file.err, opened)
            ELSE GotDFooter(DFooterRead(file.reader))
        GotSnap(snap) ==
            IF ~snap.ok THEN OpenErr(snap.err, opened)
            ELSE IF IsSome(snap.val) THEN GotSFooter(SFooterRead(Unwrap(snap.val)))
            ELSE GotFile(StorageOpen(st, next, "delta"))
    IN GotSnap(StorageOpenMaybe(st, next, "snapshot"))

\* Reader::open(latest, storage)
ReaderOpen(st, latest) ==
    LET SelfOf(r) == IF r.ok THEN [r EXCEPT !.self.latest = latest] ELSE r
    IN SelfOf(OpenLoop(st, latest, <<>>, 0, {}))

ReloadErr(self, err, opened) ==
    [ok |-> FALSE, err |-> err, self |-> self, opened |-> opened]

RECURSIVE ReloadLoop(_, _, _, _, _, _, _)
\* The loop of Reader::reload and what follows it
ReloadLoop(st, self, latest, next, deltas, additional, opened) ==
    IF next = self.latest
    THEN [ok |-> TRUE, err |-> NoErr, opened |-> opened,
          self |-> [latest |-> latest,
                    entries |-> ReplayRev(Reserve(self.entries, additional), deltas)]]
    ELSE
    LET dopened == opened \cup {FileKey(next, "delta")}
        GotDelta(footer, delta) ==
            IF ~delta.ok THEN ReloadErr(self, delta.err, dopened)
            ELSE ReloadLoop(st, self, latest, Unwrap(footer.previous),
                            Append(deltas, delta.entries), additional + footer.count,
                            dopened)
        GotFooter(footer) ==
            IF ~footer.ok THEN ReloadErr(self, footer.err, dopened)
            ELSE IF ~IsSome(footer.footer.previous)
            THEN ReloadErr(self, <<"Disconnected", latest, self.latest, next>>, dopened)
            ELSE GotDelta(footer.footer, ReadEntries(footer.reader, footer.footer.count))
        GotFile(file) ==
            IF ~file.ok THEN ReloadErr(self, file.err, opened)
            ELSE GotFooter(DFooterRead(file.reader))
    IN GotFile(StorageOpen(st, next, "delta"))

\* reload without `self.latest = latest`: the entries are replayed, the tip
\* stays where it was
ReaderReloadStaleTip(st, self, latest) ==
    LET Stale(r) == [r EXCEPT !.self.latest = self.latest]
    IN Stale(ReloadLoop(st, self, latest, latest, <<>>, 0, {}))

\* reload whose loop tests `next != self.latest` after its body, not before
ReaderReloadLoopFirst(st, self, latest) ==
    IF latest = self.latest
    THEN LET Tip(r) == [r EXCEPT !.self.latest = IF r.ok THEN latest ELSE self.latest]
         IN Tip(ReloadLoop(st, [self EXCEPT !.latest = NoLink], latest, latest,
                           <<>>, 0, {}))
    ELSE ReloadLoop(st, self, latest, latest, <<>>, 0, {})

\* reload with `self.latest = latest` moved before the walk
ReaderReloadTipFirst(st, self, latest) ==
    LET Moved(r) == [r EXCEPT !.self.latest = latest]
    IN Moved(ReloadLoop(st, self, latest, latest, <<>>, 0, {}))

\* reload that commits link by link: once the delta of `latest` is read its
\* entries are inserted and the tip is moved, before the walk goes on
ReaderReloadPartial(st, self, latest) ==
    LET Commit(r, first) ==
            IF r.ok \/ ~first.ok \/ Cardinality(r.opened) < 2 THEN r
            ELSE [r EXCEPT !.self = [latest |-> latest,
                                     entries |-> InsertAll(self.entries, first.entries)]]
        Read(file) ==
            IF ~file.ok THEN [ok |-> FALSE, entries |-> <<>>]
            ELSE LET Body(footer) ==
                         IF ~footer.ok THEN [ok |-> FALSE, entries |-> <<>>]
                         ELSE ReadEntries(footer.reader, footer.footer.count)
                 IN Body(DFooterRead(file.reader))
    IN Commit(ReloadLoop(st, self, latest, latest, <<>>, 0, {}),
              Read(StorageOpen(st, latest, "delta")))

\* Reader::reload(&mut self, latest)
ReaderReload(st, self, latest) ==
    ReloadLoop(st, self, latest, latest, <<>>, 0, {})

\* Reader::len / get_at / get_index_of
ReaderLen(self) == EntriesLen(self.entries)
ReaderGetAt(self, index) == GetAt(self.entries, index)
ReaderGetIndexOf(self, entry) == GetIndexOf(self.entries, entry)

(* ------------------------------- writer ------------------------------- *)

\* count == u32::MAX, decided on the two 16-bit halves of count
IsU32Max(count) == count \div 65536 = 65535 /\ count % 65536 = 65535

\* storage::Writer::file_size: the bytes emitted so far
WriterFileSize(bytes) == Len(bytes)

NoWriter ==
    [open |-> FALSE, offset |-> 0, count |-> 0, id |-> NoLink, previous |-> None,
     index |-> 0, delta |-> <<>>, has_snapshot |-> FALSE, snapshot |-> <<>>,
     written |-> <<>>, ids |-> <<>>]

\* Writer::create(previous, storage) with the random LinkId drawn as `id`
Create(previous, id) ==
    [open |-> TRUE, offset |-> 0, count |-> 0, id |-> id, previous |-> previous,
     index |-> 0, delta |-> <<>>, has_snapshot |-> FALSE, snapshot |-> <<>>,
     written |-> <<>>, ids |-> <<>>]

\* Writer::with_snapshot that starts an empty snapshot when the snapshot of
\* the previous link cannot be opened
WithSnapshotOrphan(st, self) ==
    IF WriterFileSize(self.delta) # 0
    THEN [ok |-> FALSE, err |-> <<"NotEmpty">>, self |-> self]
    ELSE IF IsSome(self.previous)
    THEN LET GotFooter(footer) ==
                 IF ~footer.ok THEN [ok |-> FALSE, err |-> footer.err, self |-> self]
                 ELSE [ok |-> TRUE, err |-> NoErr,
                       self |-> [self EXCEPT !.offset = footer.footer.count,
                                             !.count = footer.footer.count,
                                             !.index = footer.footer.index + 1,
                                             !.has_snapshot = TRUE,
                                             !.snapshot = CopyFrom(footer.reader)]]
             GotPrevious(previous) ==
                 IF ~previous.ok
                 THEN [ok |-> TRUE, err |-> NoErr,
                       self |-> [self EXCEPT !.has_snapshot = TRUE, !.snapshot = <<>>]]
                 ELSE GotFooter(SFooterRead(previous.reader))
         IN GotPrevious(StorageOpen(st, Unwrap(self.previous), "snapshot"))
    ELSE [ok |-> TRUE, err |-> NoErr,
          self |-> [self EXCEPT !.has_snapshot = TRUE, !.snapshot = <<>>]]

\* Writer::with_snapshot without the check that nothing was written yet
WithSnapshotAnytime(st, self) ==
    IF IsSome(self.previous)
    THEN LET GotFooter(footer) ==
                 IF ~footer.ok THEN [ok |-> FALSE, err |-> footer.err, self |-> self]
                 ELSE [ok |-> TRUE, err |-> NoErr,
                       self |-> [self EXCEPT !.offset = footer.footer.count,
                                             !.count = footer.footer.count,
                                             !.index = footer.footer.index + 1,
                                             !.has_snapshot = TRUE,
                                             !.snapshot = CopyFrom(footer.reader)]]
             GotPrevious(previous) ==
                 IF ~previous.ok THEN [ok |-> FALSE, err |-> previous.err, self |-> self]
                 ELSE GotFooter(SFooterRead(previous.reader))
         IN GotPrevious(StorageOpen(st, Unwrap(self.previous), "snapshot"))
    ELSE [ok |-> TRUE, err |-> NoErr,
          self |-> [self EXCEPT !.has_snapshot = TRUE, !.snapshot = <<>>]]

\* Writer::with_snapshot(&mut self): the writer it leaves and its result
WithSnapshot(st, self) ==
    IF WriterFileSize(self.delta) # 0
    THEN [ok |-> FALSE, err |-> <<"NotEmpty">>, self |-> self]
    ELSE IF IsSome(self.previous)
    THEN LET GotFooter(footer) ==
                 IF ~footer.ok THEN [ok |-> FALSE, err |-> footer.err, self |-> self]
                 ELSE [ok |-> TRUE, err |-> NoErr,
                       self |-> [self EXCEPT !.offset = footer.footer.count,
                                             !.count = footer.footer.count,
                                             !.index = footer.footer.index + 1,
                                             !.has_snapshot = TRUE,
                                             !.snapshot = CopyFrom(footer.reader)]]
             GotPrevious(previous) ==
                 IF ~previous.ok THEN [ok |-> FALSE, err |-> previous.err, self |-> self]
                 ELSE GotFooter(SFooterRead(previous.reader))
         IN GotPrevious(StorageOpen(st, Unwrap(self.previous), "snapshot"))
    ELSE [ok |-> TRUE, err |-> NoErr,
          self |-> [self EXCEPT !.has_snapshot = TRUE, !.snapshot = <<>>]]

\* The seeding step of Writer::write_unique: from the previous link's delta
\* footer when index is still 0 and there is a previous link
Seed(st, self) ==
    IF self.index = 0 /\ IsSome(self.previous)
    THEN LET GotFooter(footer) ==
                 IF ~footer.ok THEN [ok |-> FALSE, err |-> footer.err, self |-> self]
                 ELSE [ok |-> TRUE, err |-> NoErr,
                       self |-> [self EXCEPT !.offset = footer.footer.count,
                                             !.count = footer.footer.count,
                                             !.index = footer.footer.index + 1]]
             GotPrevious(previous) ==
                 IF ~previous.ok THEN [ok |-> FALSE, err |-> previous.err, self |-> self]
                 ELSE GotFooter(DFooterRead(previous.reader))
         IN GotPrevious(StorageOpen(st, Unwrap(self.previous), "delta"))
    ELSE [ok |-> TRUE, err |-> NoErr, self |-> self]

\* write_unique that puts the entry before the bytes already written
WriteUniquePrepend(st, self, entry) ==
    LET Write(seeded, id) ==
            [ok |-> TRUE, err |-> NoErr, id |-> id,
             self |-> [seeded EXCEPT
                         !.count = id + 1,
                         !.delta = EntryWrite(entry) \o @,
                         !.snapshot = IF seeded.has_snapshot
                                      THEN EntryWrite(entry) \o @ ELSE @,
                         !.written = Append(@, entry),
                         !.ids = Append(@, id)]]
        Seeded(seeded) ==
            IF ~seeded.ok
            THEN [ok |-> FALSE, err |-> seeded.err, self |-> seeded.self, id |-> 0]
            ELSE Write(seeded.self, seeded.self.count)
    IN Seeded(Seed(st, self))

\* Writer::write_unique(&mut self, entry): the writer it leaves, its result
\* and the id it returns
WriteUnique(st, self, entry) ==
    LET Write(seeded, id) ==
            [ok |-> TRUE, err |-> NoErr, id |-> id,
             self |-> [seeded EXCEPT
                         !.count = id + 1,
                         !.delta = @ \o EntryWrite(entry),
                         !.snapshot = IF seeded.has_snapshot
                                      THEN @ \o EntryWrite(entry) ELSE @,
                         !.written = Append(@, entry),
                         !.ids = Append(@, id)]]
        Seeded(seeded) ==
            IF ~seeded.ok
            THEN [ok |-> FALSE, err |-> seeded.err, self |-> seeded.self, id |-> 0]
            ELSE IF IsU32Max(seeded.self.count)
            THEN [ok |-> FALSE, err |-> <<"TooManyEntries">>, self |-> seeded.self,
                  id |-> 0]
            ELSE Write(seeded.self, seeded.self.count)
    IN Seeded(Seed(st, self))

\* finish() whose Empty check is `count == 0`
FinishCountZero(self) ==
    IF self.count = 0
    THEN [ok |-> FALSE, err |-> <<"Empty">>, id |-> NoLink,
          delta |-> <<>>, has_snapshot |-> FALSE, snapshot |-> <<>>]
    ELSE [ok |-> TRUE, err |-> NoErr, id |-> self.id,
          delta |-> self.delta
                      \o DFooterWrite([previous |-> self.previous, index |-> self.index,
                                       total |-> self.count,
                                       count |-> self.count - self.offset]),
          has_snapshot |-> self.has_snapshot,
          snapshot |-> IF self.has_snapshot
                       THEN self.snapshot
                              \o SFooterWrite([previous |-> self.previous,
                                               index |-> self.index, count |-> self.count])
                       ELSE <<>>]

\* Writer::finish(self): the files it closes (delta, and snapshot when
\* present) and the LinkId it returns
Finish(self) ==
    IF self.offset = self.count
    THEN [ok |-> FALSE, err |-> <<"Empty">>, id |-> NoLink,
          delta |-> <<>>, has_snapshot |-> FALSE, snapshot |-> <<>>]
    ELSE
    LET dfooter == [previous |-> self.previous, index |-> self.index,
                    total |-> self.count, count |-> self.count - self.offset]
        sfooter == [previous |-> self.previous, index |-> self.index,
                    count |-> self.count]
    IN [ok |-> TRUE, err |-> NoErr, id |-> self.id,
        delta |-> self.delta \o DFooterWrite(dfooter),
        has_snapshot |-> self.has_snapshot,
        snapshot |-> IF self.has_snapshot THEN self.snapshot \o SFooterWrite(sfooter)
                     ELSE <<>>]

(* --------------------------- the lazy writer --------------------------- *)

\* No LazyWriter

\* LazyWriter::create: no file is made, no I/O is done
LazyCreate(previous) ==
    [state |-> "Uncreated", previous |-> previous, snapshot |-> FALSE,
     writer |-> NoWriter]

\* LazyWriter::with_snapshot(&mut self)
LazyWithSnapshot(self) ==
    IF self.state = "Uncreated"
    THEN [ok |-> TRUE, err |-> NoErr, self |-> [self EXCEPT !.snapshot = TRUE]]
    ELSE [ok |-> FALSE, err |-> <<"NotEmpty">>, self |-> self]

\* State::make_created that forgets the snapshot that was asked for
MakeCreatedNoSnapshot(st, self, id) ==
    IF self.state # "Uncreated"
    THEN [ok |-> TRUE, err |-> NoErr, self |-> self]
    ELSE
    LET Made(w) == [ok |-> TRUE, err |-> NoErr,
                    self |-> [self EXCEPT !.state = "Created", !.writer = w]]
        Asked(r) == IF ~r.ok THEN [ok |-> FALSE, err |-> r.err, self |-> self]
                    ELSE Made(r.self)
    IN Made(Create(self.previous, id))

\* State::make_created: Writer::create with the drawn id, then with_snapshot
\* when it was asked for; an error of either leaves the state Uncreated.
MakeCreated(st, self, id) ==
    IF self.state # "Uncreated"
    THEN [ok |-> TRUE, err |-> NoErr, self |-> self]
    ELSE
    LET Made(w) == [ok |-> TRUE, err |-> NoErr,
                    self |-> [self EXCEPT !.state = "Created", !.writer = w]]
        Asked(r) == IF ~r.ok THEN [ok |-> FALSE, err |-> r.err, self |-> self]
                    ELSE Made(r.self)
    IN IF self.snapshot
       THEN Asked(WithSnapshot(st, Create(self.previous, id)))
       ELSE Made(Create(self.previous, id))

\* LazyWriter::write_unique(&mut self, entry)
LazyWriteUnique(st, self, id, entry) ==
    LET Wrote(made, r) == [ok |-> r.ok, err |-> r.err,
                           self |-> [made.self EXCEPT !.writer = r.self]]
        Written(made) == IF ~made.ok THEN made
                         ELSE Wrote(made, WriteUnique(st, made.self.writer, entry))
    IN Written(MakeCreated(st, self, id))

(* ----------------------- counters near u32::MAX ------------------------ *)

\* A u32 is a pair <<high, low>> of 16-bit halves and a usize a triple
\* <<top, high, low>>, so that values around 2^32 can be written down.
U32Max == <<65535, 65535>>

\* u32 += 1 of a value that is not u32::MAX
U32Inc(x) == IF x[2] = 65535 THEN <<x[1] + 1, 0>> ELSE <<x[1], x[2] + 1>>

\* usize + 1
UsizeInc(n) ==
    IF n[3] < 65535 THEN <<n[1], n[2], n[3] + 1>>
    ELSE IF n[2] < 65535 THEN <<n[1], n[2] + 1, 0>>
    ELSE <<n[1] + 1, 0, 0>>

\* `n as u32` of a usize: the low 32 bits
AsU32(n) == <<n[2], n[3]>>

\* Writer::write_unique whose capacity check is one off
WriteUniqueCountOneOff(count, bytes) ==
    IF U32Inc(count) = U32Max
    THEN [ok |-> FALSE, err |-> <<"TooManyEntries">>, id |-> <<0, 0>>,
          count |-> count, bytes |-> bytes]
    ELSE [ok |-> TRUE, err |-> NoErr, id |-> count,
          count |-> IF count = U32Max THEN <<0, 0>> ELSE U32Inc(count),
          bytes |-> bytes + EntrySize]

\* Writer::write_unique from its capacity check on, for a writer whose
\* cumulative count is `count` and that has written `bytes` bytes: the id it
\* returns, the count and the bytes written it leaves.
WriteUniqueCount(count, bytes) ==
    IF count = U32Max
    THEN [ok |-> FALSE, err |-> <<"TooManyEntries">>, id |-> <<0, 0>>,
          count |-> count, bytes |-> bytes]
    ELSE [ok |-> TRUE, err |-> NoErr, id |-> count,
          count |-> U32Inc(count), bytes |-> bytes + EntrySize]

\* Entries::insert_unique on an index that holds `len` entries: the index it
\* returns and the number of entries it leaves.
InsertUniqueLen(len) ==
    [index |-> AsU32(len), len |-> UsizeInc(len)]

NoCap == [op |-> "none", count |-> <<0, 0>>, bytes |-> 0, len |-> <<0, 0, 0>>,
          steps |-> 0, before |-> <<0, 0, 0>>, ok |-> TRUE, err |-> NoErr,
          id |-> <<0, 0>>]

(* ------------------------ writes that may fail ------------------------- *)

\* Writer::write_unique when the store refuses the write of the entry to
\* the file of kind `at`: seeding and the capacity check are as in any
\* write_unique, then the id is taken and count incremented, then the
\* write to the delta and, when there is a snapshot, the write to it.
WriteUniqueFailing(st, self, entry, at) ==
    LET Write(seeded) ==
            [ok |-> FALSE, err |-> <<"Storage">>, id |-> 0,
             self |-> [seeded EXCEPT
                         !.count = @ + 1,
                         !.delta = IF at = "snapshot"
                                   THEN @ \o EntryWrite(entry) ELSE @]]
        Checked(seeded) ==
            IF ~seeded.ok
            THEN [ok |-> FALSE, err |-> seeded.err, self |-> seeded.self, id |-> 0]
            ELSE IF IsU32Max(seeded.self.count)
            THEN [ok |-> FALSE, err |-> <<"TooManyEntries">>, self |-> seeded.self,
                  id |-> 0]
            ELSE Write(seeded.self)
    IN Checked(Seed(st, self))

\* The footer bytes finish() appends to the delta and to the snapshot
DeltaFooter(self) ==
    SubSeq(Finish(self).delta, Len(self.delta) + 1, Len(Finish(self).delta))
SnapshotFooter(self) ==
    SubSeq(Finish(self).snapshot, Len(self.snapshot) + 1, Len(Finish(self).snapshot))

\* One task of finish() that closes the file with what was written so far
TaskStepNoFooter(task, footer, fails) ==
    IF fails THEN [pc |-> "failed", bytes |-> task.bytes]
    ELSE IF task.pc = "footer" THEN [pc |-> "close", bytes |-> task.bytes]
    ELSE [pc |-> "done", bytes |-> task.bytes]

\* One step of a task of finish(): `footer.write(&mut file).await?`, then
\* `file.finish().await`; either may fail.
TaskStep(task, footer, fails) ==
    IF fails THEN [pc |-> "failed", bytes |-> task.bytes]
    ELSE IF task.pc = "footer" THEN [pc |-> "close", bytes |-> task.bytes \o footer]
    ELSE [pc |-> "done", bytes |-> task.bytes]

\* No finish() under way
NoFin == [active |-> FALSE, w |-> NoWriter,
          delta |-> [pc |-> "done", bytes |-> <<>>],
          snapshot |-> [pc |-> "done", bytes |-> <<>>]]

\* finish() up to try_join: the tasks it is about to run
FinishTasks(self) ==
    [active |-> TRUE, w |-> self,
     delta |-> [pc |-> "footer", bytes |-> self.delta],
     snapshot |-> IF self.has_snapshot
                  THEN [pc |-> "footer", bytes |-> self.snapshot]
                  ELSE [pc |-> "done", bytes |-> <<>>]]

(* ---------------------------- the system ------------------------------ *)

VARIABLES
    files,      \* the object store: FileKey -> the bytes of a closed file
    writer,     \* the one Writer of the caller (open = FALSE: none)
    wres,       \* the result of the last writer operation, until a reader runs
    reader,     \* the one Reader of the caller (open = FALSE: none)
    rres,       \* the result of the last reader operation
    links,      \* history: what the caller did to make each finalized link
    lazy,       \* the one LazyWriter of the caller (state = "None": none)
    cap,        \* the counters of a writer and of an entries index near u32::MAX
    fin         \* the two tasks of a finish() under way (active = FALSE: none)

vars == <<files, writer, wres, reader, rres, links, lazy, cap, fin>>

\* The top 32 bits LinkId::random() may draw: zero, or some other value.
HighBits == {0, 7}

Finalized == DOMAIN links

\* The LinkIds in use: those of the finalized links and of the files a
\* finish that failed has left in the store.
Taken == Finalized \cup {k[1] : k \in DOMAIN files}

\* The LinkIds LinkId::random() may draw next: never zero, never the id of a
\* link in the store.
RandomLinkIds == {<<hi, 0, 0, Cardinality(Taken) + 1>> : hi \in HighBits}

RECURSIVE Path(_)
\* A finalized link and its ancestors
Path(id) ==
    IF IsSome(links[id].previous) THEN {id} \cup Path(Unwrap(links[id].previous)) ELSE {id}

Roots == {id \in Finalized : ~IsSome(links[id].previous)}

\* The faults the store may show to one reload(latest) of a reader: none, or
\* one delta file whose stat fails, or one whose ranged reads fail, among the
\* links on the way back from latest down to and with the reader's tip (to
\* the root when the tip is not on the way).
Faults(self, latest) ==
    {<<>>} \cup {<<FileKey(id, "delta"), m>> :
                    id \in IF self.latest \in Path(latest)
                           THEN (Path(latest) \ Path(self.latest)) \cup {self.latest}
                           ELSE Path(latest),
                    m \in {"stat", "read"}}

Store(fault) ==
    Operator(files,
             IF Len(fault) = 2 /\ fault[2] = "stat" THEN {fault[1]} ELSE {},
             IF Len(fault) = 2 /\ fault[2] = "read" THEN {fault[1]} ELSE {})

RECURSIVE Dict(_)
\* The dictionary of a finalized link as its writers made it: the entries
\* written into its ancestors, oldest first, then those written into it.
Dict(id) ==
    IF IsSome(links[id].previous)
    THEN Dict(Unwrap(links[id].previous)) \o links[id].written
    ELSE links[id].written

SeqToSet(q) == {q[i] : i \in 1..Len(q)}

NoWRes == [op |-> "none", ok |-> TRUE, err |-> NoErr]
NoRRes == [op |-> "none", ok |-> TRUE, err |-> NoErr, latest |-> NoLink,
           before |-> NoSelf, opened |-> {}, fault |-> <<>>]
NoReaderSelf == [open |-> FALSE, self |-> NoSelf]
NoLazy == [state |-> "None", previous |-> None, snapshot |-> FALSE, writer |-> NoWriter]

Init ==
    /\ files = <<>>
    /\ writer = NoWriter
    /\ wres = NoWRes
    /\ reader = NoReaderSelf
    /\ rres = NoRRes
    /\ links = <<>>
    /\ lazy = NoLazy
    /\ fin = NoFin
    /\ cap = NoCap

\* let writer = Writer::create(previous, storage).await?
\* The caller holds one writer at a time (the single-writer rule), and holds
\* its reader between writers: a reader sees closed files only and closed
\* files never change, so what a reader does while a writer is open is what
\* it does once that writer has finished.  Creating a writer drops the reader.
WriterCreate ==
    /\ ~writer.open
    /\ lazy.state = "None"
    /\ ~fin.active
    /\ Cardinality(Taken) < MaxLinks
    /\ \E previous \in (IF Cardinality(Roots) < MaxRoots THEN {None} ELSE {})
                         \cup {Some(p) : p \in Finalized}, id \in RandomLinkIds :
         /\ writer' = Create(previous, id)
         /\ wres' = [NoWRes EXCEPT !.op = "create"]
    /\ reader' = NoReaderSelf
    /\ rres' = NoRRes
    /\ UNCHANGED <<files, links, lazy, cap, fin>>

\* The writer was seeded: by a with_snapshot that succeeded, or by the
\* seeding of a write_unique
IsSeeded(w) == w.has_snapshot \/ w.index # 0 \/ w.written # <<>>

\* writer.with_snapshot().await; the result remembers whether the writer was
\* seeded when the call was made
WriterWithSnapshot ==
    /\ writer.open
    /\ LET r == WithSnapshot(Store(<<>>), writer) IN
         /\ writer' = r.self
         /\ wres' = [op |-> "with_snapshot", ok |-> r.ok, err |-> r.err,
                     seeded |-> IsSeeded(writer)]
    /\ UNCHANGED <<files, reader, rres, links, lazy, cap, fin>>

\* The entries the caller may still write: not in the dictionary of the
\* previous link, not written into this link (the unique-insert contract).
Writable ==
    (1..MaxEntry) \ (SeqToSet(writer.written)
                     \cup IF IsSome(writer.previous)
                          THEN SeqToSet(Dict(Unwrap(writer.previous))) ELSE {})

\* writer.write_unique(entry).await; entries are opaque to the code, so the
\* caller writes the least entry it may
WriterWriteUnique ==
    /\ writer.open
    /\ Writable # {}
    /\ LET entry == CHOOSE e \in Writable : \A o \in Writable : e <= o
           r == WriteUnique(Store(<<>>), writer, entry) IN
           /\ writer' = r.self
           /\ wres' = [op |-> "write_unique", ok |-> r.ok, err |-> r.err]
    /\ UNCHANGED <<files, reader, rres, links, lazy, cap, fin>>

\* The store once the files of a successful finish are closed
Closed(fs, r) ==
    [k \in DOMAIN fs \cup {FileKey(r.id, "delta")}
            \cup (IF r.has_snapshot THEN {FileKey(r.id, "snapshot")} ELSE {}) |->
        IF k = FileKey(r.id, "delta") THEN r.delta
        ELSE IF k = FileKey(r.id, "snapshot") THEN r.snapshot
        ELSE fs[k]]

\* The history once writer w has finished its link
Linked(ls, w) ==
    [k \in DOMAIN ls \cup {w.id} |->
        IF k = w.id
        THEN [previous |-> w.previous, written |-> w.written,
              ids |-> w.ids, snapshot |-> w.has_snapshot]
        ELSE ls[k]]

\* writer.finish().await: the writer is consumed
WriterFinish ==
    /\ writer.open
    /\ LET r == Finish(writer) IN
         /\ wres' = [op |-> "finish", ok |-> r.ok, err |-> r.err]
         /\ files' = IF ~r.ok THEN files ELSE Closed(files, r)
         /\ links' = IF ~r.ok THEN links ELSE Linked(links, writer)
    /\ writer' = NoWriter
    /\ UNCHANGED <<reader, rres, lazy, cap, fin>>

\* let reader = Reader::open(latest, storage).await?
\* Reader::open takes nothing from a reader the caller already holds, so the
\* caller opens when it holds none.
Open ==
    /\ ~writer.open
    /\ ~reader.open
    /\ \E latest \in Finalized :
        LET r == ReaderOpen(Store(<<>>), latest) IN
          /\ reader' = IF r.ok THEN [open |-> TRUE, self |-> r.self] ELSE NoReaderSelf
          /\ rres' = [op |-> "open", ok |-> r.ok, err |-> r.err, latest |-> latest,
                      before |-> NoSelf, opened |-> r.opened, fault |-> <<>>]
          /\ wres' = NoWRes
          /\ UNCHANGED <<files, writer, links, lazy, cap, fin>>

\* reader.reload(latest).await
Reload ==
    /\ ~writer.open
    /\ reader.open
    /\ \E latest \in Finalized : \E fault \in Faults(reader.self, latest) :
        LET r == ReaderReload(Store(fault), reader.self, latest) IN
          /\ reader' = [reader EXCEPT !.self = r.self]
          /\ rres' = [op |-> "reload", ok |-> r.ok, err |-> r.err, latest |-> latest,
                      before |-> reader.self, opened |-> r.opened, fault |-> fault]
          /\ wres' = NoWRes
          /\ UNCHANGED <<files, writer, links, lazy, cap, fin>>

Next ==
    \/ WriterCreate
    \/ WriterWithSnapshot
    \/ WriterWriteUnique
    \/ WriterFinish
    \/ Open
    \/ Reload

Spec == Init /\ [][Next]_vars

(* ------------------------------ claims -------------------------------- *)

\* The position of entry e in sequence q, counted from 0
RECURSIVE IndexIn(_, _)
IndexIn(q, e) == IF q[1] = e THEN 0 ELSE 1 + IndexIn(Tail(q), e)

\* The reader holds exactly the dictionary q: len, get_at and get_index_of
HoldsDict(self, q) ==
    /\ ReaderLen(self) = Len(q)
    /\ \A i \in 0..(Len(q) - 1) :
         /\ ReaderGetAt(self, i) = Some(q[i + 1])
         /\ ReaderGetIndexOf(self, q[i + 1]) = Some(i)

\* C1: round-trip at the root.  Whenever the last reader operation was
\* Reader::open(id) of a link written by a fresh Writer::create(None) with
\* write_unique calls only, the open succeeded and the reader holds exactly
\* the entries written, in order, under the identifiers 0..n-1.
C1_RoundTrip ==
    (rres.op = "open" /\ rres.latest \in Roots /\ ~links[rres.latest].snapshot)
        => /\ rres.ok
           /\ reader.open
           /\ reader.self.latest = rres.latest
           /\ HoldsDict(reader.self, links[rres.latest].written)

\* C2: chain extension.  Whenever the last reader operation was
\* Reader::open(id2) of a link that extends id1, the open succeeded and the
\* reader holds the dictionary of id1 followed by the entries written into
\* id2, under the identifiers 0..n+m-1.
C2_ChainExtension ==
    (rres.op = "open" /\ IsSome(links[rres.latest].previous))
        => /\ rres.ok
           /\ reader.open
           /\ HoldsDict(reader.self,
                        Dict(Unwrap(links[rres.latest].previous))
                            \o links[rres.latest].written)

\* C3: identifier stability, in its writer form.  In every finalized link the
\* j-th write_unique returned the dictionary index of its entry: the size of
\* the previous link's dictionary plus j - 1 (so the first call of a writer
\* extending P returned P's cumulative size and each later call one more).
C3_IdentifierStability ==
    \A id \in Finalized :
        \A j \in 1..Len(links[id].written) :
            links[id].ids[j] = IndexIn(Dict(id), links[id].written[j])

\* The store with every snapshot file taken away
DeltasOnly(fs) ==
    [k \in {x \in DOMAIN fs : x[2] = "delta"} |-> fs[k]]

\* C4: snapshot equivalence.  For every finalized link that has a snapshot
\* file, Reader::open of it succeeds exactly when the open of the same link
\* over the store without any snapshot file (the walk of the deltas back to
\* the root) succeeds, and then both hold the same entries in the same order.
C4_SnapshotEquivalence ==
    \A id \in Finalized :
        FileKey(id, "snapshot") \in DOMAIN files
            => LET snap == ReaderOpen(Store(<<>>), id)
                   walk == ReaderOpen(Operator(DeltasOnly(files), {}, {}), id)
               IN /\ snap.ok = walk.ok
                  /\ snap.ok => snap.self.entries = walk.self.entries

C6_ReloadIdempotent ==
    rres.op = "reload"
        => /\ rres.latest = rres.before.latest
                => (rres.ok /\ rres.opened = {} /\ reader.self = rres.before)
           /\ LET again == ReaderReload(Store(rres.fault), reader.self, rres.latest) IN
              /\ again.self = reader.self
              /\ again.ok = rres.ok
              /\ again.err = rres.err

\* A reload to the reader's own latest, over a store whose file for that
\* link cannot even be read.
C6_Witness ==
    /\ rres.op = "reload"
    /\ rres.latest = rres.before.latest
    /\ Len(rres.fault) = 2
    /\ rres.fault[1] = FileKey(rres.latest, "delta")

RECURSIVE RootOf(_)
\* The root of the chain of a finalized link
RootOf(id) ==
    IF IsSome(links[id].previous) THEN RootOf(Unwrap(links[id].previous)) ELSE id

\* C7: disconnected detection.  Whenever the last reader operation was a
\* reload(B) over a store without faults by a reader whose tip A is not B or
\* an ancestor of B, it failed with Disconnected{latest: B, expected: A,
\* got: the root of B's chain}.
C7_Disconnected ==
    (/\ rres.op = "reload"
     /\ rres.fault = <<>>
     /\ rres.before.latest \notin Path(rres.latest))
        => /\ ~rres.ok
           /\ rres.err = <<"Disconnected", rres.latest, rres.before.latest,
                           RootOf(rres.latest)>>

\* C8: a failing reload leaves the reader's latest as it was before the call.
C8_FailedReloadKeepsLatest ==
    (rres.op = "reload" /\ ~rres.ok)
        => /\ reader.open
           /\ reader.self.latest = rres.before.latest

\* A reload failed after it had read the delta of the new tip and gone on to
\* an older link.
C8_Witness ==
    /\ rres.op = "reload"
    /\ ~rres.ok
    /\ Cardinality(rres.opened) >= 2
    /\ rres.latest # rres.before.latest

\* The field of `width` bytes at offset `at` of the footer of `size` bytes
\* that ends the file
FooterField(file, size, at, width) ==
    FromBeBytes(SubSeq(file, Len(file) - size + at + 1, Len(file) - size + at + width))

DeltaIndex(id) == FooterField(files[FileKey(id, "delta")], DFooterSize, 16, 4)
DeltaTotal(id) == FooterField(files[FileKey(id, "delta")], DFooterSize, 20, 4)
DeltaCount(id) == FooterField(files[FileKey(id, "delta")], DFooterSize, 24, 4)
SnapshotIndex(id) == FooterField(files[FileKey(id, "snapshot")], SFooterSize, 16, 4)
SnapshotCount(id) == FooterField(files[FileKey(id, "snapshot")], SFooterSize, 20, 4)

\* C9: link index.  The index field of the delta footer of every finalized
\* link (and of its snapshot footer when it has a snapshot file) is 0 for a
\* root and the index of the previous link's delta footer plus one otherwise.
C9_LinkIndex ==
    \A id \in Finalized :
        LET index == IF IsSome(links[id].previous)
                     THEN DeltaIndex(Unwrap(links[id].previous)) + 1
                     ELSE 0
        IN /\ DeltaIndex(id) = index
           /\ FileKey(id, "snapshot") \in DOMAIN files => SnapshotIndex(id) = index

\* C10: delta footer totals.  In the delta footer of every finalized link,
\* count is the number of entries written into the link, total is the size of
\* the link's dictionary, count <= total, and total is the count of the
\* link's snapshot footer when it has a snapshot file.
C10_DeltaTotals ==
    \A id \in Finalized :
        /\ DeltaCount(id) = Len(links[id].written)
        /\ DeltaTotal(id) = Len(Dict(id))
        /\ DeltaCount(id) <= DeltaTotal(id)
        /\ FileKey(id, "snapshot") \in DOMAIN files => DeltaTotal(id) = SnapshotCount(id)

RECURSIVE EntriesBytes(_)
\* The encodings of the entries of q, one after the other
EntriesBytes(q) ==
    IF Len(q) = 0 THEN <<>> ELSE EntryWrite(q[1]) \o EntriesBytes(Tail(q))

\* The bytes before the footer of a link's delta and snapshot file
DeltaBody(id) ==
    SubSeq(files[FileKey(id, "delta")], 1, Len(files[FileKey(id, "delta")]) - DFooterSize)
SnapshotBody(id) ==
    SubSeq(files[FileKey(id, "snapshot")], 1,
           Len(files[FileKey(id, "snapshot")]) - SFooterSize)

\* C11: snapshot footer count.  In the snapshot file of every finalized link
\* that has one, the count of the footer is the size of the link's
\* dictionary (the entries of its ancestors and its own), and the body is
\* the encoding of that dictionary, identifier 0 first.
C11_SnapshotCount ==
    \A id \in Finalized :
        FileKey(id, "snapshot") \in DOMAIN files
            => /\ SnapshotCount(id) = Len(Dict(id))
               /\ SnapshotBody(id) = EntriesBytes(Dict(id))

C18_DoesNotExist ==
    /\ (/\ wres.op = "with_snapshot"
        /\ wres.err # <<"NotEmpty">>
        /\ IsSome(writer.previous)
        /\ FileKey(Unwrap(writer.previous), "snapshot") \notin DOMAIN files)
           => wres.err = <<"DoesNotExist", Unwrap(writer.previous), "snapshot">>
    /\ (/\ rres.op = "open"
        /\ FileKey(rres.latest, "snapshot") \notin DOMAIN files
        /\ FileKey(rres.latest, "delta") \notin DOMAIN files)
           => /\ rres.err = <<"DoesNotExist", rres.latest, "delta">>
              /\ ~reader.open

C20_BodyReads ==
    \A id \in Finalized :
        LET file == files[FileKey(id, "delta")]
            footer == DFooterRead(StorageOpen(Store(<<>>), id, "delta").reader)
            body == ReadEntries(footer.reader, footer.footer.count)
        IN footer.ok
            => /\ footer.reader.file_size = Len(file) - DFooterSize
               /\ body.ok
               /\ Len(body.entries) = footer.footer.count
               /\ \A i \in 1..Len(body.entries) :
                    body.entries[i]
                        = FromBeBytes(SubSeq(file, (i - 1) * EntrySize + 1, i * EntrySize))

(* ------------------- a store that was tampered with -------------------- *)

\* The store and history once a caller has made one more link: created the
\* writer, asked for a snapshot or not, written one entry and finished.
Grown(s, previous, id, snapshot, entry) ==
    LET st == Operator(s.files, {}, {})
        Finished(w) == [files |-> Closed(s.files, Finish(w)),
                        links |-> Linked(s.links, w)]
        Begun(w) == Finished(WriteUnique(st, w, entry).self)
    IN Begun(IF snapshot THEN WithSnapshot(st, Create(previous, id)).self
             ELSE Create(previous, id))

\* A chain of two links, a root and its child, each holding one entry, both
\* with a snapshot or both without.
Chains ==
    {Grown(Grown([files |-> <<>>, links |-> <<>>], None, <<hi, 0, 0, 1>>, snapshot, 1),
           Some(<<hi, 0, 0, 1>>), <<0, 0, 0, 2>>, snapshot, 2) :
        hi \in HighBits, snapshot \in BOOLEAN}

\* The sizes a file may be cut down to, and the versions its last two bytes
\* may be overwritten with.
TruncatedSizes == {0, 1, 4, 26, 29}
OtherVersions == {1, 256}

\* What may have happened to one file of the store behind the program's back:
\* nothing, or the file was removed, or cut short, or its version bytes were
\* overwritten.
Damages(fs) ==
    {<<>>} \cup {<<k, d>> : k \in DOMAIN fs,
                            d \in {<<"removed">>}
                                  \cup {<<"truncated", n>> : n \in TruncatedSizes}
                                  \cup {<<"version", v>> : v \in OtherVersions}}

Damaged(fs, damage) ==
    IF damage = <<>> THEN fs
    ELSE IF damage[2][1] = "removed"
    THEN [k \in DOMAIN fs \ {damage[1]} |-> fs[k]]
    ELSE [k \in DOMAIN fs |->
            IF k # damage[1] THEN fs[k]
            ELSE IF damage[2][1] = "truncated" THEN SubSeq(fs[k], 1, damage[2][2])
            ELSE SubSeq(fs[k], 1, Len(fs[k]) - 2) \o ToBeBytes(damage[2][2], 2)]

InitStore ==
    /\ \E chain \in Chains : \E damage \in Damages(chain.files) :
         /\ files = Damaged(chain.files, damage)
         /\ links = chain.links
    /\ writer = NoWriter
    /\ wres = NoWRes
    /\ reader = NoReaderSelf
    /\ rres = NoRRes
    /\ lazy = NoLazy
    /\ fin = NoFin
    /\ cap = NoCap

SpecStore == InitStore /\ [][Next]_vars

\* The file whose footer the last operation read first, with the size of
\* that footer: Reader::open reads the snapshot of latest when the store has
\* it and its delta otherwise, a reload to another link the delta of latest,
\* the first write_unique of a writer that has a previous link and no
\* snapshot the delta of that link, with_snapshot the snapshot of that link.
FirstFooter ==
    {f \in IF rres.op = "open"
           THEN IF FileKey(rres.latest, "snapshot") \in DOMAIN files
                THEN {<<FileKey(rres.latest, "snapshot"), SFooterSize>>}
                ELSE {<<FileKey(rres.latest, "delta"), DFooterSize>>}
           ELSE IF rres.op = "reload"
           THEN IF rres.latest # rres.before.latest
                   /\ rres.fault # <<FileKey(rres.latest, "delta"), "stat">>
                THEN {<<FileKey(rres.latest, "delta"), DFooterSize>>} ELSE {}
           ELSE IF wres.op = "write_unique"
           THEN IF IsSome(writer.previous) /\ ~writer.has_snapshot
                   /\ Len(writer.written) <= 1
                THEN {<<FileKey(Unwrap(writer.previous), "delta"), DFooterSize>>} ELSE {}
           ELSE IF wres.op = "with_snapshot"
           THEN IF IsSome(writer.previous) /\ wres.err # <<"NotEmpty">>
                THEN {<<FileKey(Unwrap(writer.previous), "snapshot"), SFooterSize>>} ELSE {}
           ELSE {} : f[1] \in DOMAIN files}

\* The error of the last operation
LastErr == IF rres.op # "none" THEN rres.err ELSE wres.err

\* The last two bytes of a file, decoded as the footer read decodes them
VersionOf(file) == FromBeBytes(SubSeq(file, Len(file) - 1, Len(file)))

\* C14 as stated: whatever the size of the file, when its last two bytes
\* are not VERSION the operation that reads its footer fails with
\* Version{expected: VERSION, got: those two bytes}.
C14_VersionAnySize ==
    \A f \in FirstFooter :
        (/\ Len(files[f[1]]) >= 2
         /\ VersionOf(files[f[1]]) # VERSION
         /\ (rres.op = "reload" => rres.fault = <<>>))
            => LastErr = <<"Version", VERSION, VersionOf(files[f[1]])>>

\* C14, amended: footer version guard.  When the file whose footer an
\* operation reads first (Reader::open, a reload to another link, writer
\* seeding by write_unique or with_snapshot) is at least as long as its
\* footer and its last two bytes are not the big-endian VERSION, the
\* operation fails with Version{expected: VERSION, got: those two bytes}.
C14_VersionGuard ==
    \A f \in FirstFooter :
        (/\ Len(files[f[1]]) >= f[2]
         /\ VersionOf(files[f[1]]) # VERSION
         /\ (rres.op = "reload" => rres.fault = <<>>))
            => LastErr = <<"Version", VERSION, VersionOf(files[f[1]])>>

C14_Witness ==
    /\ wres.op = "write_unique"
    /\ \E f \in FirstFooter :
          /\ Len(files[f[1]]) >= f[2]
          /\ VersionOf(files[f[1]]) = 256
          /\ wres.err = <<"Version", VERSION, 256>>

\* C15: footer size guard.  When the file whose footer an operation reads
\* first is shorter than that footer (30 bytes for a delta, 26 for a
\* snapshot), the operation fails with FileSize{expected: the footer's size,
\* got: the file's size}, whatever the last two bytes of the file are and
\* also when every read of the file from the store would fail: the size is
\* checked before the version bytes are read and no read is issued.
C15_SizeGuard ==
    \A f \in FirstFooter :
        Len(files[f[1]]) < f[2]
            => LastErr = <<"FileSize", f[2], Len(files[f[1]])>>

C15_Witness ==
    /\ rres.op = "reload"
    /\ rres.fault = <<FileKey(rres.latest, "delta"), "read">>
    /\ \E f \in FirstFooter :
          /\ Len(files[f[1]]) = 4
          /\ VersionOf(files[f[1]]) # VERSION
          /\ rres.err = <<"FileSize", DFooterSize, 4>>

(* --------------------- the caller of a lazy writer --------------------- *)

\* let mut lazy = LazyWriter::create(previous, storage): the one writer of
\* the caller
LazyWriterCreate ==
    /\ ~writer.open
    /\ lazy.state = "None"
    /\ ~fin.active
    /\ \E previous \in {None} \cup {Some(p) : p \in Finalized} :
         lazy' = LazyCreate(previous)
    /\ wres' = [NoWRes EXCEPT !.op = "lazy_create"]
    /\ UNCHANGED <<files, writer, reader, rres, links, cap, fin>>

\* lazy.with_snapshot()
LazyWriterWithSnapshot ==
    /\ lazy.state # "None"
    /\ LET r == LazyWithSnapshot(lazy) IN
         /\ lazy' = r.self
         /\ wres' = [op |-> "lazy_with_snapshot", ok |-> r.ok, err |-> r.err]
    /\ UNCHANGED <<files, writer, reader, rres, links, cap, fin>>

\* The entries the caller may still write through the lazy writer
LazyWritable ==
    (1..MaxEntry) \ (SeqToSet(lazy.writer.written)
                     \cup IF IsSome(lazy.previous)
                          THEN SeqToSet(Dict(Unwrap(lazy.previous))) ELSE {})

\* lazy.write_unique(entry).await
LazyWriterWriteUnique ==
    /\ lazy.state # "None"
    /\ LazyWritable # {}
    /\ \E id \in RandomLinkIds :
         LET entry == CHOOSE e \in LazyWritable : \A o \in LazyWritable : e <= o
             r == LazyWriteUnique(Store(<<>>), lazy, id, entry) IN
             /\ lazy' = r.self
             /\ wres' = [op |-> "lazy_write_unique", ok |-> r.ok, err |-> r.err]
    /\ UNCHANGED <<files, writer, reader, rres, links, cap, fin>>

\* drop(lazy): LazyWriter has no finish, the caller can only drop it
LazyWriterDrop ==
    /\ lazy.state # "None"
    /\ lazy' = NoLazy
    /\ wres' = NoWRes
    /\ UNCHANGED <<files, writer, reader, rres, links, cap, fin>>

NextLazy ==
    \/ WriterCreate
    \/ WriterWithSnapshot
    \/ WriterWriteUnique
    \/ WriterFinish
    \/ LazyWriterCreate
    \/ LazyWriterWithSnapshot
    \/ LazyWriterWriteUnique
    \/ LazyWriterDrop

SpecLazy == Init /\ [][NextLazy]_vars

\* C13: with_snapshot after a write is rejected.  A with_snapshot() of an
\* eager writer into which an entry was written fails with NotEmpty and
\* leaves the writer as it was (no snapshot writer is created, nothing is
\* copied); a with_snapshot() of a lazy writer that an earlier write_unique
\* has materialized fails with NotEmpty and leaves it as it was.
C13_NotEmpty ==
    [][/\ (wres'.op = "with_snapshot" /\ writer.written # <<>>)
           => /\ wres'.err = <<"NotEmpty">>
              /\ writer' = writer
       /\ (wres'.op = "lazy_with_snapshot" /\ lazy.state = "Created")
           => /\ wres'.err = <<"NotEmpty">>
              /\ lazy' = lazy]_vars

C13_Witness ==
    /\ wres.op = "lazy_with_snapshot"
    /\ wres.err = <<"NotEmpty">>
    /\ lazy.state = "Created"
    /\ lazy.snapshot
    /\ lazy.writer.has_snapshot
    /\ Len(lazy.writer.written) = 1

(* ------------------ callers with counters near u32::MAX ----------------- *)

\* The most operations one caller makes
MaxSteps == 3

\* The cumulative counts a writer may be seeded with, and the numbers of
\* entries an index may hold: the first and the last values of u32, the
\* values around a carry of the low half, and for an index 2^32 and above.
Counts ==
    {<<0, 0>>, <<0, 1>>, <<0, 65535>>, <<1, 0>>, <<65535, 0>>,
     <<65535, 65533>>, <<65535, 65534>>, U32Max}
Lens == {<<0, c[1], c[2]>> : c \in Counts} \cup {<<1, 0, 0>>, <<1, 0, 1>>}

InitCapacity ==
    /\ files = <<>>
    /\ writer = NoWriter
    /\ wres = NoWRes
    /\ reader = NoReaderSelf
    /\ rres = NoRRes
    /\ links = <<>>
    /\ lazy = NoLazy
    /\ fin = NoFin
    /\ \E count \in Counts, len \in Lens :
         cap = [NoCap EXCEPT !.count = count, !.len = len]

\* writer.write_unique(entry).await of a seeded writer
CapacityWriteUnique ==
    /\ cap.steps < MaxSteps
    /\ LET r == WriteUniqueCount(cap.count, cap.bytes) IN
         cap' = [cap EXCEPT !.op = "write_unique", !.steps = @ + 1,
                            !.before = <<0, cap.count[1], cap.count[2]>>,
                            !.count = r.count, !.bytes = r.bytes,
                            !.ok = r.ok, !.err = r.err, !.id = r.id]
    /\ UNCHANGED <<files, writer, wres, reader, rres, links, lazy, fin>>

\* entries.insert_unique(entry)
CapacityInsertUnique ==
    /\ cap.steps < MaxSteps
    /\ LET r == InsertUniqueLen(cap.len) IN
         cap' = [cap EXCEPT !.op = "insert_unique", !.steps = @ + 1,
                            !.before = cap.len, !.len = r.len,
                            !.ok = TRUE, !.err = NoErr, !.id = r.index]
    /\ UNCHANGED <<files, writer, wres, reader, rres, links, lazy, fin>>

NextCapacity ==
    \/ CapacityWriteUnique
    \/ CapacityInsertUnique

SpecCapacity == InitCapacity /\ [][NextCapacity]_vars

\* C16: writer capacity.  write_unique fails with TooManyEntries exactly
\* when the cumulative count is u32::MAX, and then leaves the count and the
\* bytes written as they were; for every smaller count it returns id = count,
\* writes one entry and leaves count + 1, which is at most u32::MAX (the
\* addition does not overflow).
C16_WriterCapacity ==
    [][cap'.op = "write_unique" /\ cap'.steps = cap.steps + 1
        => IF cap.count = U32Max
           THEN /\ cap'.err = <<"TooManyEntries">>
                /\ cap'.count = cap.count
                /\ cap'.bytes = cap.bytes
           ELSE /\ cap'.ok
                /\ cap'.id = cap.count
                /\ cap'.bytes = cap.bytes + EntrySize
                /\ \/ cap'.count[1] = cap.count[1] /\ cap'.count[2] = cap.count[2] + 1
                   \/ /\ cap'.count[1] = cap.count[1] + 1
                      /\ cap.count[2] = 65535 /\ cap'.count[2] = 0
                /\ cap'.count[1] \in 0..65535
                /\ cap'.count[2] \in 0..65535]_vars

C16_Witness ==
    /\ cap.op = "write_unique"
    /\ cap.count = U32Max
    /\ cap.err = <<"TooManyEntries">>
    /\ cap.steps = 3
    /\ cap.bytes = 2 * EntrySize

\* C17: entries-index capacity.  An insert_unique into an index that holds
\* u32::MAX entries or more surfaces TooManyEntries; one into a smaller
\* index returns the number of entries the index held, so that no
\* identifier is handed out twice.
C17_IndexCapacity ==
    cap.op = "insert_unique"
        => IF cap.before[1] > 0 \/ AsU32(cap.before) = U32Max
           THEN cap.err = <<"TooManyEntries">>
           ELSE cap.ok /\ cap.id = AsU32(cap.before)

\* C21: framed reader cursor.  For the reader of the delta file of every
\* finalized link, placed at the first byte of the footer: a read_bytes of
\* 2, 4, 8 or 16 bytes returns the bytes at [cursor, cursor + N) and leaves
\* the cursor N further, read_u128 and the read_u32 that follows it decode
\* adjacent ranges, so Footer::read returns previous, index, total and count
\* as the four adjacent fields of the file hold them; and a read of 4 bytes
\* with 2 left fails with FileSize and leaves the cursor where it was.
C21_FramedCursor ==
    \A id \in Finalized :
        LET file == files[FileKey(id, "delta")]
            fresh == StorageOpen(Store(<<>>), id, "delta").reader
            r == Goto(fresh, -DFooterSize)
            Framed(read, N) ==
                /\ read.ok
                /\ read.bytes = SubSeq(file, r.offset + 1, r.offset + N)
                /\ read.reader.offset = r.offset + N
            Next32(first) ==
                /\ first.ok
                /\ first.reader.offset = r.offset + 16
                /\ ReadU32(first.reader).ok
                /\ ReadU32(first.reader).val = DeltaIndex(id)
                /\ ReadU32(first.reader).reader.offset = r.offset + 20
            Fields(footer) ==
                /\ footer.ok
                /\ footer.footer = [previous |-> links[id].previous,
                                    index |-> DeltaIndex(id),
                                    total |-> DeltaTotal(id),
                                    count |-> DeltaCount(id)]
            Short(read, at) ==
                /\ read.err = <<"FileSize", at.offset + 4, at.file_size>>
                /\ read.reader.offset = at.offset
        IN /\ \A N \in {2, 4, 8, 16} : Framed(ReadBytes(r, N), N)
           /\ Next32(ReadU128(r))
           /\ Fields(DFooterRead(fresh))
           /\ Short(ReadBytes(Goto(fresh, -2), 4), Goto(fresh, -2))

\* C22: snapshot copy.  The snapshot file of every finalized link that has
\* one and whose previous link P has a snapshot file holds the body of P's
\* snapshot, then the entries written into the link, then a footer whose
\* count is P's snapshot count plus the number of those entries; and a
\* with_snapshot that succeeded on a writer with such a previous link left
\* offset = count = P's snapshot count, index = P's snapshot index + 1 and
\* the body of P's snapshot, without its footer, in the new snapshot.
C22_SnapshotCopy ==
    /\ \A id \in Finalized :
          (/\ FileKey(id, "snapshot") \in DOMAIN files
           /\ IsSome(links[id].previous)
           /\ FileKey(Unwrap(links[id].previous), "snapshot") \in DOMAIN files)
              => /\ SnapshotBody(id)
                      = SnapshotBody(Unwrap(links[id].previous))
                            \o EntriesBytes(links[id].written)
                 /\ SnapshotCount(id)
                      = SnapshotCount(Unwrap(links[id].previous))
                            + Len(links[id].written)
    /\ (/\ wres.op = "with_snapshot"
        /\ wres.ok
        /\ IsSome(writer.previous))
           => /\ writer.offset = SnapshotCount(Unwrap(writer.previous))
              /\ writer.count = SnapshotCount(Unwrap(writer.previous))
              /\ writer.index = SnapshotIndex(Unwrap(writer.previous)) + 1
              /\ writer.snapshot = SnapshotBody(Unwrap(writer.previous))

\* C23: writer state machine.  A with_snapshot() of a writer that is
\* already seeded, by an earlier with_snapshot that succeeded or by the
\* seeding of a write_unique, is rejected and leaves the writer as it was:
\* no second snapshot writer, no second copy, no second seeding.
C23_WithSnapshotOnce ==
    [][(wres'.op = "with_snapshot" /\ IsSeeded(writer))
          => /\ ~wres'.ok
             /\ writer' = writer]_vars

(* ------------------- a store whose writes may fail --------------------- *)

\* writer.write_unique(entry).await when the store refuses the write of the
\* entry to the delta or to the snapshot; a caller goes on with a writer
\* after one such error, not after a second.
WriterWriteUniqueFails ==
    /\ writer.open
    /\ Writable # {}
    /\ writer.count - writer.offset = Len(writer.written)
    /\ \E at \in {"delta"} \cup (IF writer.has_snapshot THEN {"snapshot"} ELSE {}) :
         LET entry == CHOOSE e \in Writable : \A o \in Writable : e <= o
             r == WriteUniqueFailing(Store(<<>>), writer, entry, at) IN
             /\ writer' = r.self
             /\ wres' = [op |-> "write_unique", ok |-> r.ok, err |-> r.err]
    /\ UNCHANGED <<files, reader, rres, links, lazy, cap, fin>>

\* writer.finish().await up to try_join: Empty, or the two tasks are made
WriterFinishStart ==
    /\ writer.open
    /\ ~fin.active
    /\ IF Finish(writer).ok
       THEN /\ fin' = FinishTasks(writer)
            /\ wres' = [NoWRes EXCEPT !.op = "try_join"]
       ELSE /\ fin' = fin
            /\ wres' = [op |-> "finish", ok |-> FALSE, err |-> Finish(writer).err]
    /\ writer' = NoWriter
    /\ UNCHANGED <<files, reader, rres, links, lazy, cap>>

\* try_join(delta, snapshot).await?; Ok(id): one step of one of the two
\* tasks.  A close puts the file in the store; the first error ends finish
\* with that error and drops the other task; when both tasks are done
\* finish returns the LinkId.
WriterFinishPoll ==
    /\ fin.active
    /\ \E kind \in {"delta", "snapshot"}, fails \in BOOLEAN :
         LET task == IF kind = "delta" THEN fin.delta ELSE fin.snapshot
             other == IF kind = "delta" THEN fin.snapshot ELSE fin.delta
             step == TaskStep(task,
                              IF kind = "delta" THEN DeltaFooter(fin.w)
                              ELSE SnapshotFooter(fin.w), fails)
         IN /\ task.pc \in {"footer", "close"}
            /\ files' = IF step.pc = "done"
                        THEN [k \in DOMAIN files \cup {FileKey(fin.w.id, kind)} |->
                                IF k = FileKey(fin.w.id, kind) THEN step.bytes
                                ELSE files[k]]
                        ELSE files
            /\ IF step.pc = "failed"
               THEN /\ fin' = NoFin
                    /\ wres' = [op |-> "finish", ok |-> FALSE, err |-> <<"Storage">>]
                    /\ links' = links
               ELSE IF step.pc = "done" /\ other.pc = "done"
               THEN /\ fin' = NoFin
                    /\ wres' = [op |-> "finish", ok |-> TRUE, err |-> NoErr]
                    /\ links' = Linked(links, fin.w)
               ELSE /\ fin' = IF kind = "delta" THEN [fin EXCEPT !.delta = step]
                                ELSE [fin EXCEPT !.snapshot = step]
                    /\ wres' = wres
                    /\ links' = links
    /\ UNCHANGED <<writer, reader, rres, lazy, cap>>

\* The most links made in a store whose writes may fail
MaxFaultLinks == 2

\* let writer = Writer::create(previous, storage).await?
FaultsWriterCreate ==
    /\ Cardinality(Taken) < MaxFaultLinks
    /\ WriterCreate

NextFaults ==
    \/ FaultsWriterCreate
    \/ WriterWithSnapshot
    \/ WriterWriteUnique
    \/ WriterWriteUniqueFails
    \/ WriterFinishStart
    \/ WriterFinishPoll

SpecFaults == Init /\ [][NextFaults]_vars

\* C24: finish requires a successful write.  Into every link a finish has
\* returned at least one write_unique had succeeded, and the count of the
\* link's delta footer is the number of write_unique calls that succeeded:
\* an entry whose write the store refused is not counted.
C24_FinishNeedsWrite ==
    \A id \in Finalized :
        /\ links[id].written # <<>>
        /\ DeltaCount(id) = Len(links[id].written)

\* C26: concurrent finalization.  However the steps of the delta task and
\* of the snapshot task of finish() interleave and whichever of them fails:
\* a file of the link is in the store only with its footer written (the
\* bytes written into it, then the footer of this finish); a link that
\* finish has returned has its delta file in the store and, when the writer
\* had a snapshot, its snapshot file, both ending with their footer; and a
\* finish that ends with an error returns no link.
C26_Finalization ==
    /\ [](/\ (fin.active /\ FileKey(fin.w.id, "delta") \in DOMAIN files)
                => files[FileKey(fin.w.id, "delta")]
                     = fin.w.delta \o DeltaFooter(fin.w)
          /\ (fin.active /\ FileKey(fin.w.id, "snapshot") \in DOMAIN files)
                => files[FileKey(fin.w.id, "snapshot")]
                     = fin.w.snapshot \o SnapshotFooter(fin.w)
          /\ \A k \in DOMAIN files :
                /\ Len(files[k]) >= IF k[2] = "delta" THEN DFooterSize ELSE SFooterSize
                /\ VersionOf(files[k]) = VERSION
          /\ \A id \in Finalized :
                /\ FileKey(id, "delta") \in DOMAIN files
                /\ (links[id].snapshot => FileKey(id, "snapshot") \in DOMAIN files))
    /\ [][/\ ((fin.active /\ ~fin'.active /\ ~wres'.ok) => links' = links)
           /\ (links' # links
                 => /\ wres'.op = "finish" /\ wres'.ok
                    /\ fin.active
                    /\ FileKey(fin.w.id, "delta") \in DOMAIN files'
                    /\ (fin.w.has_snapshot
                          => FileKey(fin.w.id, "snapshot") \in DOMAIN files'))]_vars

C26_Witness ==
    /\ fin.active
    /\ fin.w.has_snapshot
    /\ fin.snapshot.pc = "done"
    /\ fin.delta.pc = "footer"
    /\ FileKey(fin.w.id, "snapshot") \in DOMAIN files
    /\ FileKey(fin.w.id, "delta") \notin DOMAIN files

\* C25: lazy writer deferral.  LazyWriter::create and a with_snapshot of a
\* lazy writer that is not materialized touch no file and make no eager
\* writer (no LinkId is drawn); a write_unique of such a writer either
\* leaves it as it was (the with_snapshot it asked for failed) or leaves an
\* eager writer for the same previous link that has a snapshot exactly when
\* with_snapshot was asked for, and when it succeeds that writer holds the
\* one entry; a write_unique of a materialized writer keeps the writer's
\* LinkId and adds at most its entry.
C25_LazyDeferral ==
    [][/\ wres'.op \in {"lazy_create", "lazy_with_snapshot"}
           => /\ files' = files
              /\ lazy'.writer = lazy.writer
              /\ (lazy.state # "Created" => lazy'.state = "Uncreated")
              /\ (lazy'.state = "Uncreated" => lazy'.writer = NoWriter)
       /\ (wres'.op = "lazy_write_unique" /\ lazy.state = "Uncreated")
           => /\ files' = files
              /\ \/ lazy' = lazy /\ ~wres'.ok /\ lazy.snapshot
                 \/ /\ lazy'.state = "Created"
                    /\ lazy'.writer.open
                    /\ lazy'.writer.previous = lazy.previous
                    /\ lazy'.writer.has_snapshot = lazy.snapshot
                    /\ Len(lazy'.writer.written) = IF wres'.ok THEN 1 ELSE 0
       /\ (wres'.op = "lazy_write_unique" /\ lazy.state = "Created")
           => /\ files' = files
              /\ lazy'.state = "Created"
              /\ lazy'.writer.id = lazy.writer.id
              /\ lazy'.writer.has_snapshot = lazy.writer.has_snapshot
              /\ Len(lazy'.writer.written)
                    = Len(lazy.writer.written) + IF wres'.ok THEN 1 ELSE 0]_vars

C25_Witness ==
    /\ wres.op = "lazy_write_unique"
    /\ wres.ok
    /\ lazy.state = "Created"
    /\ lazy.snapshot
    /\ lazy.writer.has_snapshot
    /\ IsSome(lazy.previous)
    /\ Len(lazy.writer.written) = 2

=============================================================================
